---------------------------- MODULE Spec2Model ----------------------------
(***************************************************************************)
(* A model of the 2D camera of src/src/camera.ts: its state, its boundary  *)
(* setters, its six state mutators and the rotation-arc functions.         *)
(*                                                                         *)
(* Numbers.  The program computes in floating point; the model computes    *)
(* exactly, on integer grids:                                              *)
(*   - an angle is an integer number of eighths of a turn (Pi == 4);       *)
(*   - a zoom level is an integer number of halves (ZoomOne == 2 is the    *)
(*     zoom level 1), so 1 / zoomLevel is the fraction ZoomOne / zoomLevel;*)
(*   - a coordinate is an integer.                                         *)
(* The camera is driven with rotations that are whole quarter turns and    *)
(* with view port sizes for which division by the zoom level is exact, so  *)
(* that rotateVector and multiplyByScalar are exact on every value they    *)
(* meet.  The rotation-arc functions are also applied, as pure functions,  *)
(* to every angle of the grid.                                             *)
(***************************************************************************)
EXTENDS Integers, Sequences, FiniteSets, TLC

\* Math.PI, in eighths of a turn.
Pi == 4

\* Math.PI * 2
TwoPi == 2 * Pi

\* The zoom level 1 of the constructor, in halves.
ZoomOne == 2

\* Largest magnitude of an angle handed to the program.
MaxAngle == 10

\* Destinations handed to setPosition have coordinates k * CoordStep,
\* |k| <= MaxSteps.
MaxSteps == 2

Abs(n) == IF n < 0 THEN -n ELSE n

MinOf(a, b) == IF a < b THEN a ELSE b

MaxOf(a, b) == IF a > b THEN a ELSE b

\* The greatest common divisor of two naturals.
RECURSIVE Gcd(_, _)
Gcd(a, b) == IF b = 0 THEN a ELSE Gcd(b, a % b)

\* JavaScript's % : the remainder takes the sign of the dividend.
JsRem(a, m) == IF a >= 0 THEN a % m ELSE -((-a) % m)

Point(px, py) == [x |-> px, y |-> py]

(***************************************************************************)
(* The vector primitives of ./vector (the geometry collaborator).          *)
(***************************************************************************)
vectorAddition(a, b) == [x |-> a.x + b.x, y |-> a.y + b.y]

vectorSubtraction(a, b) == [x |-> a.x - b.x, y |-> a.y - b.y]

\* A scalar is a fraction [num, den]; the products the camera forms are whole.
multiplyByScalar(v, s) ==
    [x |-> (v.x * s.num) \div s.den, y |-> (v.y * s.num) \div s.den]

\* Rotation by an angle, exact for whole quarter turns (the only angles the
\* camera is driven with); no other angle is given a value.
rotateVector(v, angle) ==
    CASE angle % TwoPi = 0          -> v
      [] angle % TwoPi = Pi \div 2  -> [x |-> -v.y, y |-> v.x]
      [] angle % TwoPi = Pi         -> [x |-> -v.x, y |-> -v.y]
      [] angle % TwoPi = 3 * (Pi \div 2) -> [x |-> v.y, y |-> -v.x]

\* The z component of the cross product of two vectors.
crossProduct(a, b) == a.x * b.y - a.y * b.x

\* A point lies on the closed segment from a to b.
onLineSegment(p, a, b) ==
    /\ crossProduct(vectorSubtraction(b, a), vectorSubtraction(p, a)) = 0
    /\ MinOf(a.x, b.x) <= p.x /\ p.x <= MaxOf(a.x, b.x)
    /\ MinOf(a.y, b.y) <= p.y /\ p.y <= MaxOf(a.y, b.y)

\* The square of the distance between two points.
distanceSquared(a, b) == (a.x - b.x) * (a.x - b.x) + (a.y - b.y) * (a.y - b.y)

\* The intersection of the closed segment startPoint..endPoint with the closed
\* segment startPoint2..endPoint2: none, a point, or (segments on one line
\* that share more than a point) an interval, whose end point is the shared
\* point farthest from startPoint.  A crossing point is startPoint plus the
\* fraction tnum / den of the way to endPoint; its coordinates are whole on
\* the grids the function is applied to.
getLineSegmentIntersection(startPoint, endPoint, startPoint2, endPoint2) ==
    LET r    == vectorSubtraction(endPoint, startPoint)
        s    == vectorSubtraction(endPoint2, startPoint2)
        qp   == vectorSubtraction(startPoint2, startPoint)
        sign == IF crossProduct(r, s) < 0 THEN -1 ELSE 1
        den  == sign * crossProduct(r, s)
        tnum == sign * crossProduct(qp, s)
        unum == sign * crossProduct(qp, r)
        ends == { startPoint, endPoint, startPoint2, endPoint2 }
        shared == { e \in ends : /\ onLineSegment(e, startPoint, endPoint)
                                 /\ onLineSegment(e, startPoint2, endPoint2) }
        g    == Gcd(tnum, den)
        far == CHOOSE e \in shared :
                  \A f \in shared :
                      distanceSquared(startPoint, f) <= distanceSquared(startPoint, e)
    IN  IF den # 0
        THEN IF 0 <= tnum /\ tnum <= den /\ 0 <= unum /\ unum <= den
             THEN [intersects |-> TRUE,
                   intersections |->
                     [intersectionType |-> "point",
                      intersectionPoint |->
                        Point(startPoint.x + (r.x * (tnum \div g)) \div (den \div g),
                              startPoint.y + (r.y * (tnum \div g)) \div (den \div g))]]
             ELSE [intersects |-> FALSE]
        ELSE IF shared = {} THEN [intersects |-> FALSE]
        ELSE IF Cardinality(shared) = 1
             THEN [intersects |-> TRUE,
                   intersections |->
                     [intersectionType |-> "point", intersectionPoint |-> far]]
             ELSE [intersects |-> TRUE,
                   intersections |->
                     [intersectionType |-> "interval", intervalEndPoint |-> far]]

(***************************************************************************)
(* Rotation-arc logic.                                                     *)
(***************************************************************************)
\* normalizeAngle without the shift of a negative remainder.
normalizeAngle_NoWrap(angle) == JsRem(angle, TwoPi)

\* normalizeAngle shifting a remainder of 0 up by a turn as well.
normalizeAngle_ShiftsZero(angle) ==
    LET normalizedAngle == JsRem(angle, TwoPi)
    IN  IF normalizedAngle > 0 THEN normalizedAngle
        ELSE normalizedAngle + TwoPi

normalizeAngle(angle) ==
    LET normalizedAngle == JsRem(angle, TwoPi)
    IN  IF normalizedAngle >= 0 THEN normalizedAngle
        ELSE normalizedAngle + TwoPi

angleSpan(from, to) ==
    LET normalizedFrom == normalizeAngle(from)
        normalizedTo   == normalizeAngle(to)
        diff           == normalizedTo - normalizedFrom
    IN  IF Abs(diff) <= Pi THEN diff ELSE diff - TwoPi

\* rotationWithinBoundary measuring every arc in the positive direction.
rotationWithinBoundary_IgnoresDirection(rot, rb) ==
    LET normalizedRotation == normalizeAngle(rot)
        fromStart0 == normalizedRotation - rb.start
        angleFromStart == IF fromStart0 < 0 THEN fromStart0 + TwoPi ELSE fromStart0
        range0 == rb.end - rb.start
        angleRange == IF range0 < 0 THEN range0 + TwoPi ELSE range0
    IN  angleRange >= angleFromStart

rotationWithinBoundary(rot, rb) ==
    LET normalizedRotation == normalizeAngle(rot)
        fromStart0 == normalizedRotation - rb.start
        fromStart1 == IF fromStart0 < 0 THEN fromStart0 + TwoPi ELSE fromStart0
        angleFromStart == IF ~rb.positiveDirection /\ fromStart1 > 0
                          THEN TwoPi - fromStart1 ELSE fromStart1
        range0 == rb.end - rb.start
        range1 == IF range0 < 0 THEN range0 + TwoPi ELSE range0
        angleRange == IF ~rb.positiveDirection /\ range1 > 0
                      THEN TwoPi - range1 ELSE range1
    IN  angleRange >= angleFromStart

clampRotation(rot, rb) ==
    IF rotationWithinBoundary(rot, rb) THEN rot
    ELSE LET angleFromStart == angleSpan(rb.start, rot)
             angleFromEnd   == angleSpan(rb.end, rot)
         IN  IF Abs(angleFromStart) < Abs(angleFromEnd) THEN rb.start
             ELSE IF Abs(angleFromStart) = Abs(angleFromEnd) /\ rb.startForTieBreak
                  THEN rb.start
                  ELSE rb.end

(***************************************************************************)
(* Position and zoom boundaries.                                           *)
(***************************************************************************)
\* withinPositionBoundary with the test of the y axis left out.
withinPositionBoundary_XOnly(destination, pb) ==
    IF destination.x > pb.max.x \/ destination.x < pb.min.x THEN FALSE
    ELSE TRUE

withinPositionBoundary(destination, pb) ==
    IF destination.x > pb.max.x \/ destination.x < pb.min.x THEN FALSE
    ELSE IF destination.y > pb.max.y \/ destination.y < pb.min.y THEN FALSE
    ELSE TRUE

\* simpleClamping holding the point back at the max corner only.
simpleClamping_MaxOnly(destination, pb) ==
    IF withinPositionBoundary(destination, pb) THEN destination
    ELSE [x |-> MinOf(destination.x, pb.max.x),
          y |-> MinOf(destination.y, pb.max.y)]

simpleClamping(destination, pb) ==
    IF withinPositionBoundary(destination, pb) THEN destination
    ELSE [x |-> MaxOf(MinOf(destination.x, pb.max.x), pb.min.x),
          y |-> MaxOf(MinOf(destination.y, pb.max.y), pb.min.y)]

\* What a call of clampingV2 ends with: a point returned or an Error thrown.
Returned(point) == [threw |-> FALSE, value |-> point]

Thrown(message) == [threw |-> TRUE, message |-> message]

\* boundaryEdge without the branch of the left edge.
boundaryEdge_NoLeftEdge(surpassedTop, surpassedBottom, surpassedLeft, pb) ==
    LET topRight    == Point(pb.max.x, pb.max.y)
        bottomRight == Point(pb.max.x, pb.min.y)
        topLeft     == Point(pb.min.x, pb.max.y)
        bottomLeft  == Point(pb.min.x, pb.min.y)
    IN  IF surpassedTop THEN [boundaryStart |-> topLeft, boundaryEnd |-> topRight]
        ELSE IF surpassedBottom
        THEN [boundaryStart |-> bottomLeft, boundaryEnd |-> bottomRight]
        ELSE [boundaryStart |-> bottomRight, boundaryEnd |-> topRight]

\* The edge clampingV2 intersects with, by the edges the destination exceeds.
boundaryEdge(surpassedTop, surpassedBottom, surpassedLeft, pb) ==
    LET topRight    == Point(pb.max.x, pb.max.y)
        bottomRight == Point(pb.max.x, pb.min.y)
        topLeft     == Point(pb.min.x, pb.max.y)
        bottomLeft  == Point(pb.min.x, pb.min.y)
    IN  IF surpassedTop THEN [boundaryStart |-> topLeft, boundaryEnd |-> topRight]
        ELSE IF surpassedBottom
        THEN [boundaryStart |-> bottomLeft, boundaryEnd |-> bottomRight]
        ELSE IF surpassedLeft
        THEN [boundaryStart |-> bottomLeft, boundaryEnd |-> topLeft]
        ELSE [boundaryStart |-> bottomRight, boundaryEnd |-> topRight]

clampingV2(origin, destination, pb) ==
    IF withinPositionBoundary(destination, pb) THEN Returned(destination)
    ELSE LET topRight    == Point(pb.max.x, pb.max.y)
             bottomRight == Point(pb.max.x, pb.min.y)
             topLeft     == Point(pb.min.x, pb.max.y)
             bottomLeft  == Point(pb.min.x, pb.min.y)
             surpassedTop    == destination.y > topLeft.y
             surpassedRight  == destination.x > topRight.x
             surpassedBottom == destination.y < bottomRight.y
             surpassedLeft   == destination.x < bottomLeft.x
             edge == boundaryEdge(surpassedTop, surpassedBottom, surpassedLeft, pb)
             res  == getLineSegmentIntersection(origin, destination,
                                                edge.boundaryStart, edge.boundaryEnd)
         IN  IF surpassedTop /\ surpassedRight THEN Returned(topRight)
             ELSE IF surpassedTop /\ surpassedLeft THEN Returned(topLeft)
             ELSE IF surpassedBottom /\ surpassedRight THEN Returned(bottomRight)
             ELSE IF surpassedBottom /\ surpassedLeft THEN Returned(bottomLeft)
             ELSE IF ~res.intersects
             THEN Thrown("should have intersection but cannot calculate one")
             ELSE CASE res.intersections.intersectionType = "point" ->
                         Returned(res.intersections.intersectionPoint)
                    [] res.intersections.intersectionType = "interval" ->
                         Returned(res.intersections.intervalEndPoint)
                    [] OTHER ->
                         Thrown("with intersections but the type is unknown")

\* withinZoomLevelBoundary with the upper end left out of the range.
withinZoomLevelBoundary_Exclusive(zoom, zb) == zoom < zb.max /\ zoom >= zb.min

\* withinZoomLevelBoundary without the test against the lower end.
withinZoomLevelBoundary_NoMin(zoom, zb) == zoom <= zb.max

withinZoomLevelBoundary(zoom, zb) == zoom <= zb.max /\ zoom >= zb.min

transformViewPort2WorldSpaceWithCameraAttributes(point, cameraPosition, cameraZoomLevel, cameraRotation) ==
    LET scaledBack  == multiplyByScalar(point, [num |-> ZoomOne, den |-> cameraZoomLevel])
        rotatedBack == rotateVector(scaledBack, cameraRotation)
    IN  vectorAddition(rotatedBack, cameraPosition)

\* The four view port corners (top left, top right, bottom left, bottom
\* right) in world space.
cornersTransformed(w, h, cameraPosition, cameraZoomLevel, cameraRotation) ==
    LET corners == << Point(-(w \div 2), h \div 2), Point(w \div 2, h \div 2),
                      Point(-(w \div 2), -(h \div 2)), Point(w \div 2, -(h \div 2)) >>
    IN  [i \in 1..4 |->
            transformViewPort2WorldSpaceWithCameraAttributes(
                corners[i], cameraPosition, cameraZoomLevel, cameraRotation)]

\* viewPortWithinPositionBoundary testing the two top corners only.
viewPortWithinPositionBoundary_TopCorners(w, h, cameraPosition, cameraZoomLevel, cameraRotation, pb) ==
    LET t == cornersTransformed(w, h, cameraPosition, cameraZoomLevel, cameraRotation)
    IN  withinPositionBoundary(t[1], pb) /\ withinPositionBoundary(t[2], pb)

viewPortWithinPositionBoundary(w, h, cameraPosition, cameraZoomLevel, cameraRotation, pb) ==
    LET t == cornersTransformed(w, h, cameraPosition, cameraZoomLevel, cameraRotation)
    IN  /\ withinPositionBoundary(t[1], pb) /\ withinPositionBoundary(t[2], pb)
        /\ withinPositionBoundary(t[3], pb) /\ withinPositionBoundary(t[4], pb)

\* The forEach over diffs leaving the delta of the first corner as it is.
diffStep_FirstCorner(acc, diff) == acc

\* One pass of the forEach over diffs: acc = [maxXDiff, maxYDiff, delta].
diffStep(acc, diff) ==
    LET ax == IF Abs(diff.x) > acc.maxXDiff
              THEN [acc EXCEPT !.maxXDiff = Abs(diff.x), !.delta.x = diff.x]
              ELSE acc
    IN  IF Abs(diff.y) > ax.maxYDiff
        THEN [ax EXCEPT !.maxYDiff = Abs(diff.y), !.delta.y = diff.y]
        ELSE ax

clampingEntireViewPort(w, h, targetCameraPosition, cameraRotation, cameraZoomLevel, pb) ==
    LET t == cornersTransformed(w, h, targetCameraPosition, cameraZoomLevel,
                                cameraRotation)
        diffs == [i \in 1..4 |-> vectorSubtraction(simpleClamping(t[i], pb), t[i])]
        acc0 == [maxXDiff |-> Abs(diffs[1].x), maxYDiff |-> Abs(diffs[1].y),
                 delta |-> diffs[1]]
        acc4 == diffStep(diffStep(diffStep(diffStep(acc0, diffs[1]), diffs[2]),
                                  diffs[3]), diffs[4])
    IN  IF /\ withinPositionBoundary(t[1], pb) /\ withinPositionBoundary(t[2], pb)
           /\ withinPositionBoundary(t[3], pb) /\ withinPositionBoundary(t[4], pb)
        THEN targetCameraPosition
        ELSE vectorAddition(acc4.delta, targetCameraPosition)

(***************************************************************************)
(* The camera.                                                             *)
(***************************************************************************)
VARIABLES
    position,             \* _position
    zoomLevel,            \* _zoomLevel, in halves
    rotation,             \* _rotation
    positionBoundary,     \* _positionBoundary
    zoomLevelBoundary,    \* _zoomLevelBoundary
    rotationBoundary,     \* _rotationBoundary; Undefined until the setter runs
    viewPortWidth,
    viewPortHeight,
    limitEntireViewPort,
    notifications,        \* the calls the last operation made to the observer
    call,                 \* the name of the last operation
    fn                    \* the last application of a rotation-arc function

vars == << position, zoomLevel, rotation, positionBoundary, zoomLevelBoundary,
           rotationBoundary, viewPortWidth, viewPortHeight, limitEntireViewPort,
           notifications, call, fn >>

config == << positionBoundary, zoomLevelBoundary, rotationBoundary,
             viewPortWidth, viewPortHeight, limitEntireViewPort >>

Undefined == [undefined |-> TRUE]

NoFn == [name |-> "none"]

\* ---- the inputs the camera is driven with ----

\* View port sizes: halves divisible by every zoom level of 1..4.
ViewPortSizes == { [w |-> 24, h |-> 24], [w |-> 48, h |-> 24] }

PositionBoundaries == { [min |-> Point(-30, -30), max |-> Point(30, 30)] }

ConstructorZoomBoundaries == { [min |-> 1, max |-> 4] }

SetterZoomBoundaries == { [min |-> 4, max |-> 2], [min |-> 3, max |-> 4] }

ZoomTargets == 0..5

ZoomDeltas == { -1, 2 }

CoordStep == 18

Coords == { k * CoordStep : k \in -MaxSteps..(MaxSteps - 1) }

Destinations == { Point(cx, cy) : cx \in Coords, cy \in Coords }

Offsets == { Point(60, 0), Point(-18, -60), Point(0, 18) }

\* Whole quarter turns, negative and beyond a full turn included.
QuarterTurns == { a \in -MaxAngle..MaxAngle : a % (Pi \div 2) = 0 }

\* Every angle of the grid.
Angles == -MaxAngle..MaxAngle

\* Arc ends handed to the setter: negative, zero, inside a turn, a full turn
\* and beyond.
BoundaryAngles == { -3, 0, 2, 5, 8, 10 }

RotationBoundary(s, e, d, t) ==
    [start |-> s, end |-> e, positiveDirection |-> d, startForTieBreak |-> t]

RotationBoundaries(starts, ends) ==
    { RotationBoundary(s, e, d, t) :
        s \in starts, e \in ends, d \in BOOLEAN, t \in BOOLEAN }

\* A few arcs on quarter turns: one inside a turn, one with a negative start.
QuarterTurnBoundaries ==
    { RotationBoundary(0, 4, TRUE, TRUE), RotationBoundary(-2, 2, TRUE, FALSE) }

\* The few inputs of the specification of the whole camera.
FewDestinations == { Point(18, 18), Point(-36, 0) }

FewOffsets == { Point(60, -60), Point(-48, 48) }

FewZoomTargets == { 0, 2, 3, 5 }

FewRotations == { -2, 0, 4, 10 }

FewRotationDeltas == { -4, 2, 8 }

\* The inputs of the specification of clampingV2.  Coordinates are the whole
\* numbers of -ClampReach..ClampReach times ClampScale, which every difference
\* of two of them divides, so that a crossing point has whole coordinates.
ClampReach == 3

RECURSIVE LcmUpTo(_)
LcmUpTo(n) == IF n <= 1 THEN 1 ELSE (LcmUpTo(n - 1) * n) \div Gcd(LcmUpTo(n - 1), n)

ClampScale == LcmUpTo(2 * ClampReach)

ClampCoords == { k * ClampScale : k \in -ClampReach..ClampReach }

ClampPoints == { Point(cx, cy) : cx \in ClampCoords, cy \in ClampCoords }

\* A rectangle around (0,0), and two boundaries with min = max on one axis.
ClampBoundaries ==
    { [min |-> Point(-ClampScale, -ClampScale), max |-> Point(ClampScale, 2 * ClampScale)],
      [min |-> Point(0, -2 * ClampScale), max |-> Point(0, ClampScale)],
      [min |-> Point(-2 * ClampScale, ClampScale), max |-> Point(ClampScale, ClampScale)] }

\* The inputs of the specification of the transforms.  View port points and
\* vectors have coordinates that every zoom level of 1..4 divides exactly;
\* world points lie an even distance from every position the camera takes.
ViewPortPoints == { Point(12, -6) }

WorldPoints == { Point(30, -12) }

TransformRotationBoundaries == { RotationBoundary(0, 4, TRUE, TRUE) }

TransformDestinations == { Point(18, 18) }

TransformOffsets == { Point(-48, 48) }

TransformZoomTargets == { 3, 5 }

TransformZoomDeltas == { -1 }

TransformRotations == { 10 }

TransformRotationDeltas == { -2 }

\* The inputs of the specification of setPositionBy: a square around the
\* origin, a flat rectangle with the origin on its edge, and a square that
\* leaves the origin (the constructed position) outside.
ByPositionBoundaries ==
    { [min |-> Point(-10, -10), max |-> Point(10, 10)],
      [min |-> Point(-6, 0), max |-> Point(30, 12)],
      [min |-> Point(4, 6), max |-> Point(28, 30)] }

\* Offsets that leave the boundary on one axis, on both, and on none.
ByOffsets == { Point(25, 0), Point(-7, -25), Point(0, 5) }

ByDestinations == { Point(8, 9) }

\* The inputs of the specification of the zoom level.  Zoom levels and the
\* ends of zoom boundaries reach MaxZoom halves.
MaxZoom == 5

\* Boundaries handed to the constructor: one holding the initial zoom level,
\* one above it, one with its ends inverted (the constructor stores it as is).
WideConstructorZoomBoundaries ==
    { [min |-> 1, max |-> 4], [min |-> 3, max |-> MaxZoom],
      [min |-> MaxZoom, max |-> 3] }

\* Boundaries handed to the setter: every pair of positive ends, ordered,
\* equal or inverted; the widest range is handed over inverted only.
WideSetterZoomBoundaries ==
    { [min |-> a, max |-> b] : a \in 1..MaxZoom, b \in 1..MaxZoom }
        \ { [min |-> 1, max |-> MaxZoom] }

\* Targets below, inside and above every boundary, zero and negative included.
WideZoomTargets == -1..(MaxZoom + 1)

WideZoomDeltas == -2..2

\* ---- constructor ----
constructor(w, h, pb, zb) ==
    /\ position = Point(0, 0)
    /\ zoomLevel = ZoomOne
    /\ rotation = 0
    /\ positionBoundary = pb
    /\ zoomLevelBoundary = zb
    /\ viewPortHeight = h
    /\ viewPortWidth = w
    /\ limitEntireViewPort = FALSE
    /\ rotationBoundary = Undefined
    /\ notifications = << >>
    /\ call = "constructor"

snapshot(pos, zoom, rot) == [position |-> pos, zoomLevel |-> zoom, rotation |-> rot]

\* ---- setters ----

\* The zoom boundary setter storing its argument as handed over.
SetZoomLevelBoundary_NoSwap(zb) ==
    /\ zoomLevelBoundary' = zb
    /\ notifications' = << >>
    /\ call' = "set zoomLevelBoundary"
    /\ UNCHANGED << position, zoomLevel, rotation, positionBoundary,
                    rotationBoundary, viewPortWidth, viewPortHeight,
                    limitEntireViewPort, fn >>

SetZoomLevelBoundary(zb) ==
    /\ zoomLevelBoundary' =
          IF zb.min > zb.max THEN [min |-> zb.max, max |-> zb.min] ELSE zb
    /\ notifications' = << >>
    /\ call' = "set zoomLevelBoundary"
    /\ UNCHANGED << position, zoomLevel, rotation, positionBoundary,
                    rotationBoundary, viewPortWidth, viewPortHeight,
                    limitEntireViewPort, fn >>

\* The copy the setter normalizes.
validatedRotationBoundary(rb) ==
    [rb EXCEPT
        !.start = IF rb.start > TwoPi \/ rb.start < 0
                  THEN normalizeAngle(rb.start) ELSE rb.start,
        !.end   = IF rb.end > TwoPi \/ rb.end < 0
                  THEN normalizeAngle(rb.end) ELSE rb.end]

\* The setter builds validatedRotationBoundary and then stores its argument.
SetRotationBoundary(rb) ==
    LET validated == validatedRotationBoundary(rb)
    IN  /\ rotationBoundary' = rb
        /\ notifications' = << >>
        /\ call' = "set rotationBoundary"
        /\ UNCHANGED << position, zoomLevel, rotation, positionBoundary,
                        zoomLevelBoundary, viewPortWidth, viewPortHeight,
                        limitEntireViewPort, fn >>

\* limitEntireViewPort is a public field.
SetLimitEntireViewPort(b) ==
    /\ limitEntireViewPort' = b
    /\ notifications' = << >>
    /\ call' = "set limitEntireViewPort"
    /\ UNCHANGED << position, zoomLevel, rotation, positionBoundary,
                    zoomLevelBoundary, rotationBoundary, viewPortWidth,
                    viewPortHeight, fn >>

\* ---- state mutators ----

\* The body of setPosition.
setPositionBody(destination) ==
    IF limitEntireViewPort /\ ~viewPortWithinPositionBoundary(viewPortWidth, viewPortHeight, destination, zoomLevel, rotation, positionBoundary)
    THEN position' = position /\ notifications' = << >>
    ELSE IF ~withinPositionBoundary(destination, positionBoundary)
    THEN position' = position /\ notifications' = << >>
    ELSE LET origin == position
         IN  /\ position' = destination
             /\ notifications' =
                  << [kind |-> "pan", origin |-> origin, destination |-> position',
                      snapshot |-> snapshot(position', zoomLevel, rotation)] >>

setPosition(destination) ==
    /\ call' = "setPosition"
    /\ setPositionBody(destination)
    /\ UNCHANGED << zoomLevel, rotation, config, fn >>

setPositionBy(offset) ==
    LET destination == vectorAddition(position, offset)
    IN  /\ call' = "setPositionBy"
        /\ IF limitEntireViewPort
           THEN setPositionBody(clampingEntireViewPort(viewPortWidth, viewPortHeight, destination, rotation, zoomLevel, positionBoundary))
           ELSE setPositionBody(simpleClamping(destination, positionBoundary))
        /\ UNCHANGED << zoomLevel, rotation, config, fn >>

\* setZoomLevel widening the boundary to a target outside it.
setZoomLevel_WidensBoundary(targetZoom) ==
    /\ call' = "setZoomLevel"
    /\ zoomLevel' = zoomLevel /\ notifications' = << >>
    /\ zoomLevelBoundary' =
          [min |-> MinOf(zoomLevelBoundary.min, targetZoom),
           max |-> MaxOf(zoomLevelBoundary.max, targetZoom)]
    /\ UNCHANGED << position, rotation, positionBoundary, rotationBoundary,
                    viewPortWidth, viewPortHeight, limitEntireViewPort, fn >>

\* setZoomLevel building the snapshot before it stores the new zoom level.
setZoomLevelBody_StaleSnapshot(targetZoom) ==
    IF ~withinZoomLevelBoundary(targetZoom, zoomLevelBoundary)
    THEN zoomLevel' = zoomLevel /\ notifications' = << >>
    ELSE LET origin == zoomLevel
         IN  /\ zoomLevel' = targetZoom
             /\ notifications' =
                  << [kind |-> "zoom", origin |-> origin, destination |-> zoomLevel',
                      snapshot |-> snapshot(position, zoomLevel, rotation)] >>

\* The body of setZoomLevel.
setZoomLevelBody(targetZoom) ==
    IF ~withinZoomLevelBoundary(targetZoom, zoomLevelBoundary)
    THEN zoomLevel' = zoomLevel /\ notifications' = << >>
    ELSE LET origin == zoomLevel
         IN  /\ zoomLevel' = targetZoom
             /\ notifications' =
                  << [kind |-> "zoom", origin |-> origin, destination |-> zoomLevel',
                      snapshot |-> snapshot(position, zoomLevel', rotation)] >>

setZoomLevel(targetZoom) ==
    /\ call' = "setZoomLevel"
    /\ setZoomLevelBody(targetZoom)
    /\ UNCHANGED << position, rotation, config, fn >>

setZoomLevelBy(deltaZoomLevel) ==
    /\ call' = "setZoomLevelBy"
    /\ setZoomLevelBody(zoomLevel + deltaZoomLevel)
    /\ UNCHANGED << position, rotation, config, fn >>

\* setRotation without the early return on an angle outside the arc.
setRotationBody_NoReturn(rot) ==
    LET origin == rotation
    IN  /\ rotation' = normalizeAngle(rot)
        /\ notifications' =
             << [kind |-> "rotate", origin |-> origin, destination |-> rotation',
                 snapshot |-> snapshot(position, zoomLevel, rotation')] >>

\* The body of setRotation.
setRotationBody(rot) ==
    IF rotationBoundary # Undefined /\ ~rotationWithinBoundary(rot, rotationBoundary)
    THEN rotation' = rotation /\ notifications' = << >>
    ELSE LET origin == rotation
         IN  /\ rotation' = normalizeAngle(rot)
             /\ notifications' =
                  << [kind |-> "rotate", origin |-> origin, destination |-> rotation',
                      snapshot |-> snapshot(position, zoomLevel, rotation')] >>

setRotation(rot) ==
    /\ call' = "setRotation"
    /\ setRotationBody(rot)
    /\ UNCHANGED << position, zoomLevel, config, fn >>

\* The angle setRotationBy hands to setRotation.
setRotationByTarget(deltaRotation) ==
    LET targetAngle == normalizeAngle(rotation + deltaRotation)
    IN  IF rotationBoundary # Undefined
        THEN clampRotation(targetAngle, rotationBoundary)
        ELSE targetAngle

setRotationBy(deltaRotation) ==
    /\ call' = "setRotationBy"
    /\ setRotationBody(setRotationByTarget(deltaRotation))
    /\ UNCHANGED << position, zoomLevel, config, fn >>

\* ---- transforms ----

transformViewPort2WorldSpace(point) ==
    transformViewPort2WorldSpaceWithCameraAttributes(point, position, zoomLevel, rotation)

\* transformWorldSpace2ViewPort turning by the rotation, not against it.
transformWorldSpace2ViewPort_NoInverse(point) ==
    LET withOffset == vectorSubtraction(point, position)
        scaled     == multiplyByScalar(withOffset, [num |-> zoomLevel, den |-> ZoomOne])
    IN  rotateVector(scaled, rotation)

transformWorldSpace2ViewPort(point) ==
    LET withOffset == vectorSubtraction(point, position)
        scaled     == multiplyByScalar(withOffset, [num |-> zoomLevel, den |-> ZoomOne])
        rotated    == rotateVector(scaled, -rotation)
    IN  rotated

transformVector2WorldSpace(vector) ==
    rotateVector(multiplyByScalar(vector, [num |-> ZoomOne, den |-> zoomLevel]), rotation)

\* A call of a transform method: fn holds its argument and what it returned.
applyTransformViewPort2WorldSpace(point) ==
    /\ call' = "transformViewPort2WorldSpace"
    /\ fn' = [name |-> "transformViewPort2WorldSpace", point |-> point,
              result |-> transformViewPort2WorldSpace(point)]
    /\ notifications' = << >>
    /\ UNCHANGED << position, zoomLevel, rotation, config >>

applyTransformWorldSpace2ViewPort(point) ==
    /\ call' = "transformWorldSpace2ViewPort"
    /\ fn' = [name |-> "transformWorldSpace2ViewPort", point |-> point,
              result |-> transformWorldSpace2ViewPort(point)]
    /\ notifications' = << >>
    /\ UNCHANGED << position, zoomLevel, rotation, config >>

applyTransformVector2WorldSpace(vector) ==
    /\ call' = "transformVector2WorldSpace"
    /\ fn' = [name |-> "transformVector2WorldSpace", point |-> vector,
              result |-> transformVector2WorldSpace(vector)]
    /\ notifications' = << >>
    /\ UNCHANGED << position, zoomLevel, rotation, config >>

\* ---- the rotation-arc functions, applied as pure functions ----

\* fn holds the arguments drawn; each action applies one function to them.
applyNormalizeAngle ==
    /\ fn.name = "input"
    /\ fn' = [fn EXCEPT !.name = "normalizeAngle",
                        !.result = normalizeAngle(fn.rotation)]
    /\ UNCHANGED << position, zoomLevel, rotation, config, notifications, call >>

applyAngleSpan ==
    /\ fn.name = "input"
    /\ fn' = [fn EXCEPT !.name = "angleSpan",
                        !.result = angleSpan(fn.boundary.start, fn.rotation)]
    /\ UNCHANGED << position, zoomLevel, rotation, config, notifications, call >>

applyRotationWithinBoundary ==
    /\ fn.name = "input"
    /\ fn' = [fn EXCEPT !.name = "rotationWithinBoundary",
                        !.result = rotationWithinBoundary(fn.rotation, fn.boundary)]
    /\ UNCHANGED << position, zoomLevel, rotation, config, notifications, call >>

applyClampRotation ==
    /\ fn.name = "input"
    /\ fn' = [fn EXCEPT !.name = "clampRotation",
                        !.result = clampRotation(fn.rotation, fn.boundary)]
    /\ UNCHANGED << position, zoomLevel, rotation, config, notifications, call >>

\* ---- clampingV2, applied as a pure function ----

applyClampingV2 ==
    /\ fn.name = "input"
    /\ fn' = [fn EXCEPT !.name = "clampingV2",
                        !.result = clampingV2(fn.origin, fn.destination, fn.boundary)]
    /\ UNCHANGED << position, zoomLevel, rotation, config, notifications, call >>

\* ---- specifications ----

\* The whole camera, on quarter turns, with a few inputs of every kind.
Init ==
    /\ \E pb \in PositionBoundaries, zb \in ConstructorZoomBoundaries :
          constructor(48, 24, pb, zb)
    /\ fn = NoFn

Next ==
    \/ \E zb \in SetterZoomBoundaries : SetZoomLevelBoundary(zb)
    \/ \E rb \in QuarterTurnBoundaries : SetRotationBoundary(rb)
    \/ \E b \in BOOLEAN : SetLimitEntireViewPort(b)
    \/ \E d \in FewDestinations : setPosition(d)
    \/ \E o \in FewOffsets : setPositionBy(o)
    \/ \E z \in FewZoomTargets : setZoomLevel(z)
    \/ \E dz \in ZoomDeltas : setZoomLevelBy(dz)
    \/ \E a \in FewRotations : setRotation(a)
    \/ \E da \in FewRotationDeltas : setRotationBy(da)

Spec == Init /\ [][Next]_vars

\* Moving the camera: every destination and offset, every zoom level, every
\* quarter turn, both view port sizes; the boundaries stay as constructed.
InitPan ==
    /\ \E size \in ViewPortSizes, pb \in PositionBoundaries,
          zb \in ConstructorZoomBoundaries :
          constructor(size.w, size.h, pb, zb)
    /\ fn = NoFn

NextPan ==
    \/ \E b \in BOOLEAN : SetLimitEntireViewPort(b)
    \/ \E d \in Destinations : setPosition(d)
    \/ \E o \in Offsets : setPositionBy(o)
    \/ \E z \in ZoomTargets : setZoomLevel(z)
    \/ \E a \in QuarterTurns : setRotation(a)

SpecPan == InitPan /\ [][NextPan]_vars

\* The camera's rotation alone, on every angle of the grid: no operation that
\* rotates a vector is called.
NextRotation ==
    \/ \E rb \in RotationBoundaries(BoundaryAngles, BoundaryAngles) :
          SetRotationBoundary(rb)
    \/ \E a \in Angles : setRotation(a)
    \/ \E da \in Angles : setRotationBy(da)

SpecRotation == Init /\ [][NextRotation]_vars

\* The rotation-arc functions on every angle and every arc of the grid.
InitArc ==
    /\ \E pb \in PositionBoundaries, zb \in ConstructorZoomBoundaries :
          constructor(48, 24, pb, zb)
    /\ \E a \in Angles, rb \in RotationBoundaries(Angles, Angles) :
          fn = [name |-> "input", rotation |-> a, boundary |-> rb, result |-> Undefined]

NextArc ==
    \/ applyNormalizeAngle
    \/ applyAngleSpan
    \/ applyRotationWithinBoundary
    \/ applyClampRotation

SpecArc == InitArc /\ [][NextArc]_vars

\* The three transforms between the six mutators, with the rotation boundary
\* and limitEntireViewPort set in between.
NextTransform ==
    \/ \E rb \in TransformRotationBoundaries : SetRotationBoundary(rb)
    \/ \E b \in BOOLEAN : SetLimitEntireViewPort(b)
    \/ \E d \in TransformDestinations : setPosition(d)
    \/ \E o \in TransformOffsets : setPositionBy(o)
    \/ \E z \in TransformZoomTargets : setZoomLevel(z)
    \/ \E dz \in TransformZoomDeltas : setZoomLevelBy(dz)
    \/ \E a \in TransformRotations : setRotation(a)
    \/ \E da \in TransformRotationDeltas : setRotationBy(da)
    \/ \E p \in ViewPortPoints : applyTransformViewPort2WorldSpace(p)
    \/ \E p \in WorldPoints : applyTransformWorldSpace2ViewPort(p)
    \/ \E v \in ViewPortPoints : applyTransformVector2WorldSpace(v)

SpecTransform == Init /\ [][NextTransform]_vars

\* clampingV2 on every origin and destination of the grid, the origin inside
\* the boundary or not.
InitClamp ==
    /\ \E pb \in PositionBoundaries, zb \in ConstructorZoomBoundaries :
          constructor(48, 24, pb, zb)
    /\ \E o \in ClampPoints, d \in ClampPoints, pb \in ClampBoundaries :
          fn = [name |-> "input", origin |-> o, destination |-> d,
                boundary |-> pb, result |-> Undefined]

NextClamp == applyClampingV2

SpecClamp == InitClamp /\ [][NextClamp]_vars

\* setPositionBy in both modes: three position boundaries, both view port
\* sizes, every zoom level and every quarter turn.
InitBy ==
    /\ \E size \in ViewPortSizes, pb \in ByPositionBoundaries,
          zb \in ConstructorZoomBoundaries :
          constructor(size.w, size.h, pb, zb)
    /\ fn = NoFn

NextBy ==
    \/ \E b \in BOOLEAN : SetLimitEntireViewPort(b)
    \/ \E d \in ByDestinations : setPosition(d)
    \/ \E o \in ByOffsets : setPositionBy(o)
    \/ \E z \in ZoomTargets : setZoomLevel(z)
    \/ \E a \in QuarterTurns : setRotation(a)

SpecBy == InitBy /\ [][NextBy]_vars

\* The camera's zoom level alone: every boundary of the grid, at construction
\* and through the setter, every target and every delta.
InitZoom ==
    /\ \E pb \in PositionBoundaries, zb \in WideConstructorZoomBoundaries :
          constructor(48, 24, pb, zb)
    /\ fn = NoFn

NextZoom ==
    \/ \E zb \in WideSetterZoomBoundaries : SetZoomLevelBoundary(zb)
    \/ \E z \in WideZoomTargets : setZoomLevel(z)
    \/ \E dz \in WideZoomDeltas : setZoomLevelBy(dz)

SpecZoom == InitZoom /\ [][NextZoom]_vars

(***************************************************************************)
(* Properties.                                                             *)
(***************************************************************************)

\* A point lies in the rectangle of a position boundary.
InsideRect(p, pb) ==
    /\ pb.min.x <= p.x /\ p.x <= pb.max.x
    /\ pb.min.y <= p.y /\ p.y <= pb.max.y

\* The world-space half extents of the view port along x and y, for a camera
\* at a whole quarter turn: the view port's half size over the zoom level,
\* width and height exchanged at a quarter and at three quarters of a turn.
HalfExtentX(zoom, rot) ==
    IF rot % Pi = 0 THEN (viewPortWidth * ZoomOne) \div (2 * zoom)
    ELSE (viewPortHeight * ZoomOne) \div (2 * zoom)

HalfExtentY(zoom, rot) ==
    IF rot % Pi = 0 THEN (viewPortHeight * ZoomOne) \div (2 * zoom)
    ELSE (viewPortWidth * ZoomOne) \div (2 * zoom)

\* The four corners of the view port of a camera at p lie in the rectangle.
CornersInside(p, zoom, rot, pb) ==
    /\ pb.min.x <= p.x - HalfExtentX(zoom, rot)
    /\ p.x + HalfExtentX(zoom, rot) <= pb.max.x
    /\ pb.min.y <= p.y - HalfExtentY(zoom, rot)
    /\ p.y + HalfExtentY(zoom, rot) <= pb.max.y

\* The destination of a setPosition call violates the active boundary.
PositionViolates(d) ==
    \/ ~InsideRect(d, positionBoundary)
    \/ limitEntireViewPort /\ ~CornersInside(d, zoomLevel, rotation, positionBoundary)

ZoomViolates(z) == z < zoomLevelBoundary.min \/ z > zoomLevelBoundary.max

\* The camera holds an arc and its test of the arc finds the angle outside.
RotationViolates(a) ==
    rotationBoundary # Undefined /\ ~rotationWithinBoundary(a, rotationBoundary)

\* The step leaves (position, zoomLevel, rotation) alone and notifies nobody.
NothingHappens ==
    /\ position' = position /\ zoomLevel' = zoomLevel /\ rotation' = rotation
    /\ notifications' = << >>

\* C1: a call of setPosition, setZoomLevel, setZoomLevelBy or setRotation
\* whose target violates the active boundary leaves (position, zoomLevel,
\* rotation) as it was and fires no notification.
C1_SilentRejection ==
    [][ /\ call' = "setPosition" =>
              \A d \in FewDestinations :
                  (setPosition(d) /\ PositionViolates(d)) => NothingHappens
        /\ call' = "setZoomLevel" =>
              \A z \in FewZoomTargets :
                  (setZoomLevel(z) /\ ZoomViolates(z)) => NothingHappens
        /\ call' = "setZoomLevelBy" =>
              \A dz \in ZoomDeltas :
                  (setZoomLevelBy(dz) /\ ZoomViolates(zoomLevel + dz))
                      => NothingHappens
        /\ call' = "setRotation" =>
              \A a \in FewRotations :
                  (setRotation(a) /\ RotationViolates(a)) => NothingHappens ]_vars

\* A call was just rejected while the previous one had been accepted.
C1_Witness ==
    /\ call \in { "setPosition", "setZoomLevel", "setZoomLevelBy", "setRotation" }
    /\ notifications = << >>
    /\ position # Point(0, 0) /\ zoomLevel # ZoomOne /\ rotation # 0

\* The last call was an accepted setPosition or setPositionBy.
PanAccepted ==
    call \in { "setPosition", "setPositionBy" } /\ notifications # << >>

\* C2: after an accepted setPosition, direct or through setPositionBy, the
\* position lies in the position boundary and, with limitEntireViewPort set,
\* so do the four corners of the view port at the current zoom and rotation.
C2_AcceptedPositionInside ==
    PanAccepted =>
        /\ InsideRect(position, positionBoundary)
        /\ limitEntireViewPort =>
              CornersInside(position, zoomLevel, rotation, positionBoundary)

\* An accepted setPositionBy moved a rotated, zoomed camera in whole-viewport
\* mode.
C2_Witness ==
    /\ call = "setPositionBy" /\ notifications # << >>
    /\ limitEntireViewPort
    /\ notifications[1].origin # position
    /\ rotation = Pi \div 2 /\ zoomLevel = 4

Mutators ==
    { "setPosition", "setPositionBy", "setZoomLevel", "setZoomLevelBy",
      "setRotation", "setRotationBy" }

\* C3 as stated: with limitEntireViewPort set and the four corners inside the
\* position boundary, any of the six mutators leaves the four corners inside.
C3_ViewPortStaysInside ==
    [][ (/\ limitEntireViewPort /\ limitEntireViewPort'
         /\ CornersInside(position, zoomLevel, rotation, positionBoundary)
         /\ call' \in Mutators)
        => CornersInside(position', zoomLevel', rotation', positionBoundary') ]_vars

\* C3 amended: with limitEntireViewPort set and the four corners inside the
\* position boundary, setPosition and setPositionBy leave the four corners
\* inside.
C3_ViewPortStaysInsideUnderPan ==
    [][ (/\ limitEntireViewPort /\ limitEntireViewPort'
         /\ CornersInside(position, zoomLevel, rotation, positionBoundary)
         /\ call' \in { "setPosition", "setPositionBy" })
        => CornersInside(position', zoomLevel', rotation', positionBoundary') ]_vars

\* In whole-viewport mode a setPositionBy was accepted at a position off the
\* origin, the view port inside before and after.
C3_Witness ==
    /\ call = "setPositionBy" /\ notifications # << >>
    /\ limitEntireViewPort
    /\ CornersInside(notifications[1].origin, zoomLevel, rotation, positionBoundary)
    /\ CornersInside(position, zoomLevel, rotation, positionBoundary)
    /\ position # notifications[1].origin

\* C4: the rotation boundary the camera holds has start and end in [0, 2*pi).
C4_BoundaryNormalized ==
    rotationBoundary # Undefined =>
        /\ 0 <= rotationBoundary.start /\ rotationBoundary.start < TwoPi
        /\ 0 <= rotationBoundary.end /\ rotationBoundary.end < TwoPi

\* C5: with a rotation boundary installed, setRotationBy ends with the
\* rotation inside the arc and exactly one rotate notification fired.
C5_SetRotationBySucceeds ==
    (call = "setRotationBy" /\ rotationBoundary # Undefined) =>
        /\ Len(notifications) = 1
        /\ notifications[1].kind = "rotate"
        /\ rotationWithinBoundary(rotation, rotationBoundary)

\* C5 for the boundaries the setter is meant to leave: start, end in [0, 2*pi].
C5_SetRotationBySucceedsNormalized ==
    (/\ call = "setRotationBy" /\ rotationBoundary # Undefined
     /\ 0 <= rotationBoundary.start /\ rotationBoundary.start <= TwoPi
     /\ 0 <= rotationBoundary.end /\ rotationBoundary.end <= TwoPi) =>
        /\ Len(notifications) = 1
        /\ notifications[1].kind = "rotate"
        /\ rotationWithinBoundary(rotation, rotationBoundary)

\* An angle lies in [0, 2*pi).
Normalized(a) == 0 <= a /\ a < TwoPi

\* The shortest angular distance between two angles, in [0, pi].
angularDistance(a, b) ==
    LET d == (a - b) % TwoPi IN MinOf(d, TwoPi - d)

\* C6: clamping an angle to any rotation boundary gives an angle that
\* rotationWithinBoundary finds inside that boundary.
C6_ClampedIsWithin ==
    fn.name = "clampRotation" =>
        rotationWithinBoundary(fn.result, fn.boundary)

\* C6 restricted to boundaries whose start and end lie in [0, 2*pi).
C6_ClampedIsWithinNormalized ==
    (/\ fn.name = "clampRotation"
     /\ Normalized(fn.boundary.start) /\ Normalized(fn.boundary.end)) =>
        rotationWithinBoundary(fn.result, fn.boundary)

\* C7: with start, end and the angle in [0, 2*pi) and the angle outside the
\* arc, the signed difference angleSpan computes has magnitude at most pi, and
\* clampRotation returns the edge that is strictly nearer to the angle.
C7_NearestEdge ==
    (/\ Normalized(fn.boundary.start) /\ Normalized(fn.boundary.end)
     /\ Normalized(fn.rotation)
     /\ ~rotationWithinBoundary(fn.rotation, fn.boundary)) =>
        /\ fn.name = "angleSpan" => Abs(fn.result) <= Pi
        /\ fn.name = "clampRotation" =>
            /\ angularDistance(fn.rotation, fn.boundary.start)
                  < angularDistance(fn.rotation, fn.boundary.end)
                => fn.result = fn.boundary.start
            /\ angularDistance(fn.rotation, fn.boundary.end)
                  < angularDistance(fn.rotation, fn.boundary.start)
                => fn.result = fn.boundary.end

\* C8: an angle outside the arc and equally far from start and end is clamped
\* to start when startForTieBreak is set and to end when it is not.
C8_TieBreak ==
    (/\ fn.name = "clampRotation"
     /\ Normalized(fn.boundary.start) /\ Normalized(fn.boundary.end)
     /\ Normalized(fn.rotation)
     /\ ~rotationWithinBoundary(fn.rotation, fn.boundary)
     /\ angularDistance(fn.rotation, fn.boundary.start)
          = angularDistance(fn.rotation, fn.boundary.end)) =>
        fn.result = (IF fn.boundary.startForTieBreak THEN fn.boundary.start
                     ELSE fn.boundary.end)

\* The example of C8: start = 0, end = pi, positive direction, angle 3*pi/2.
C8_TieBreakExample ==
    (/\ fn.name = "clampRotation"
     /\ fn.boundary.start = 0 /\ fn.boundary.end = Pi
     /\ fn.boundary.positiveDirection
     /\ fn.rotation = 3 * (Pi \div 2)) =>
        fn.result = (IF fn.boundary.startForTieBreak THEN fn.boundary.start
                     ELSE fn.boundary.end)

Notified(kind, origin, destination) ==
    /\ Len(notifications') = 1
    /\ notifications'[1].kind = kind
    /\ notifications'[1].origin = origin
    /\ notifications'[1].destination = destination
    /\ notifications'[1].snapshot.position = position'
    /\ notifications'[1].snapshot.zoomLevel = zoomLevel'
    /\ notifications'[1].snapshot.rotation = rotation'

PanNotified == Notified("pan", position, position')

ZoomNotified == Notified("zoom", zoomLevel, zoomLevel')

RotateNotified == Notified("rotate", rotation, rotation')

\* The destination setPositionBy hands to setPosition.
PanTarget(o) ==
    IF limitEntireViewPort
    THEN clampingEntireViewPort(viewPortWidth, viewPortHeight, vectorAddition(position, o), rotation, zoomLevel, positionBoundary)
    ELSE simpleClamping(vectorAddition(position, o), positionBoundary)

\* C10: an accepted setPosition, setZoomLevel or setRotation, direct or
\* through the By variant, fires exactly one notification, of its own kind,
\* carrying the attribute before and after the call and the camera state after
\* it; a rejected one fires none.
C10_OneNotificationPerAcceptedMutation ==
    [][ /\ call' = "setPosition" =>
              /\ notifications' = << >> \/ PanNotified
              /\ \A d \in FewDestinations :
                    (setPosition(d) /\ ~PositionViolates(d)) =>
                        position' = d /\ PanNotified
        /\ call' = "setPositionBy" =>
              /\ notifications' = << >> \/ PanNotified
              /\ \A o \in FewOffsets :
                    (setPositionBy(o) /\ ~PositionViolates(PanTarget(o))) =>
                        position' = PanTarget(o) /\ PanNotified
        /\ call' = "setZoomLevel" =>
              /\ notifications' = << >> \/ ZoomNotified
              /\ \A z \in FewZoomTargets :
                    (setZoomLevel(z) /\ ~ZoomViolates(z)) =>
                        zoomLevel' = z /\ ZoomNotified
        /\ call' = "setZoomLevelBy" =>
              /\ notifications' = << >> \/ ZoomNotified
              /\ \A dz \in ZoomDeltas :
                    (setZoomLevelBy(dz) /\ ~ZoomViolates(zoomLevel + dz)) =>
                        zoomLevel' = zoomLevel + dz /\ ZoomNotified
        /\ call' = "setRotation" =>
              /\ notifications' = << >> \/ RotateNotified
              /\ \A a \in FewRotations :
                    (setRotation(a) /\ ~RotationViolates(a)) => RotateNotified
        /\ call' = "setRotationBy" =>
              /\ notifications' = << >> \/ RotateNotified
              /\ \A da \in FewRotationDeltas :
                    (setRotationBy(da) /\ ~RotationViolates(setRotationByTarget(da)))
                        => RotateNotified
        /\ (call' \in Mutators /\ << position, zoomLevel, rotation >>
                                   # << position', zoomLevel', rotation' >>) =>
              Len(notifications') = 1 ]_vars

\* An accepted setRotationBy fired a rotate notification whose origin differs
\* from its destination, for a camera moved and zoomed before.
C10_Witness ==
    /\ call = "setRotationBy" /\ Len(notifications) = 1
    /\ notifications[1].kind = "rotate"
    /\ notifications[1].origin # notifications[1].destination
    /\ notifications[1].snapshot.position # Point(0, 0)
    /\ notifications[1].snapshot.zoomLevel # ZoomOne

\* C11: withinZoomLevelBoundary(z, b) is true exactly when b.min <= z <= b.max;
\* setZoomLevel(target) stores and notifies the target when it lies in that
\* range of the current boundary and does nothing otherwise; setZoomLevelBy
\* (delta) does what setZoomLevel(zoomLevel + delta) does.
C11_ZoomRangeInclusive ==
    [][ /\ \A z \in WideZoomTargets :
              withinZoomLevelBoundary(z, zoomLevelBoundary) <=> ~ZoomViolates(z)
        /\ call' = "setZoomLevel" =>
              \A z \in WideZoomTargets :
                  setZoomLevel(z) =>
                      IF ZoomViolates(z) THEN NothingHappens
                      ELSE zoomLevel' = z /\ ZoomNotified
        /\ call' = "setZoomLevelBy" =>
              \A dz \in WideZoomDeltas :
                  setZoomLevelBy(dz) =>
                      IF ZoomViolates(zoomLevel + dz) THEN NothingHappens
                      ELSE zoomLevel' = zoomLevel + dz /\ ZoomNotified ]_vars

\* A setZoomLevelBy was accepted with its target on the upper end of a
\* boundary installed through the setter.
C11_Witness ==
    /\ call = "setZoomLevelBy" /\ Len(notifications) = 1
    /\ zoomLevel = zoomLevelBoundary.max
    /\ notifications[1].origin # zoomLevel
    /\ zoomLevelBoundary \notin WideConstructorZoomBoundaries

\* C13: a call of the zoom boundary setter leaves the camera with a boundary
\* whose min is at most its max: the ends of its argument exchanged when min
\* exceeded max, its argument as it was otherwise.
C13_ZoomBoundarySelfCorrecting ==
    [][ call' = "set zoomLevelBoundary" =>
          /\ zoomLevelBoundary'.min <= zoomLevelBoundary'.max
          /\ \A zb \in WideSetterZoomBoundaries :
                SetZoomLevelBoundary(zb) =>
                    /\ zb.min > zb.max =>
                          /\ zoomLevelBoundary'.min = zb.max
                          /\ zoomLevelBoundary'.max = zb.min
                    /\ zb.min <= zb.max => zoomLevelBoundary' = zb ]_vars

\* The setter has just stored the widest range, which it is only ever handed
\* inverted, for a camera that has not zoomed yet.
C13_Witness ==
    /\ call = "set zoomLevelBoundary"
    /\ zoomLevelBoundary = [min |-> 1, max |-> MaxZoom]
    /\ zoomLevel = ZoomOne

\* C19: with every zoom boundary handed to the constructor or to the setter
\* having both ends above 0, the zoom level is above 0 in every reachable
\* state, also while it lies outside the boundary the camera holds.
C19_ZoomLevelPositive == zoomLevel > 0

\* The setter has just installed a boundary that leaves out the zoom level
\* the camera had zoomed to.
C19_Witness ==
    /\ call = "set zoomLevelBoundary"
    /\ zoomLevel # ZoomOne
    /\ ZoomViolates(zoomLevel)
    /\ zoomLevelBoundary.min > 0

\* A coordinate held between the two ends of an axis of the boundary.
ClampAxis(v, lo, hi) == IF v < lo THEN lo ELSE IF v > hi THEN hi ELSE v

\* The per-axis clamp of a point to the rectangle of a position boundary.
ClampPerAxis(p, pb) ==
    Point(ClampAxis(p.x, pb.min.x, pb.max.x), ClampAxis(p.y, pb.min.y, pb.max.y))

\* C12: with limitEntireViewPort false (and min <= max on both axes of the
\* position boundary), setPositionBy(offset) is accepted whatever the position
\* and the offset: the position becomes the per-axis clamp of position +
\* offset and one pan notification is fired; with the boundary (-10,-10)..
\* (10,10) and position (0,0), setPositionBy((25,0)) leaves position (10,0).
C12_SetPositionByClampsAndAccepts ==
    [][ (call' = "setPositionBy" /\ ~limitEntireViewPort) =>
          \A o \in ByOffsets :
              setPositionBy(o) =>
                  /\ position' = ClampPerAxis(Point(position.x + o.x, position.y + o.y),
                                              positionBoundary)
                  /\ PanNotified
                  /\ (/\ positionBoundary = [min |-> Point(-10, -10), max |-> Point(10, 10)]
                      /\ position = Point(0, 0) /\ o = Point(25, 0))
                        => position' = Point(10, 0) ]_vars

\* The example of C12 has run: from (0,0), in the boundary (-10,-10)..(10,10),
\* an accepted setPositionBy ended on (10,0), the offset cut on the x axis.
C12_Witness ==
    /\ call = "setPositionBy" /\ Len(notifications) = 1
    /\ ~limitEntireViewPort
    /\ positionBoundary = [min |-> Point(-10, -10), max |-> Point(10, 10)]
    /\ notifications[1].origin = Point(0, 0)
    /\ position = Point(10, 0)

\* The axis-aligned bounding box of the view port in world space, at the
\* current zoom level and rotation, is no wider and no taller than the
\* position boundary.
ViewPortFits ==
    /\ 2 * HalfExtentX(zoomLevel, rotation)
          <= positionBoundary.max.x - positionBoundary.min.x
    /\ 2 * HalfExtentY(zoomLevel, rotation)
          <= positionBoundary.max.y - positionBoundary.min.y

\* The corrections clamping asks of the view port corners of a camera at t,
\* along x and along y: what the per-axis clamp adds to a corner's coordinate.
XCorrections(t) ==
    { ClampAxis(cx, positionBoundary.min.x, positionBoundary.max.x) - cx :
        cx \in { t.x - HalfExtentX(zoomLevel, rotation),
                 t.x + HalfExtentX(zoomLevel, rotation) } }

YCorrections(t) ==
    { ClampAxis(cy, positionBoundary.min.y, positionBoundary.max.y) - cy :
        cy \in { t.y - HalfExtentY(zoomLevel, rotation),
                 t.y + HalfExtentY(zoomLevel, rotation) } }

\* The corrections of largest magnitude in a set of corrections.
LargestMagnitude(S) == { d \in S : \A e \in S : Abs(e) <= Abs(d) }

C14_RoundTrip ==
    call = "transformViewPort2WorldSpace" =>
        transformWorldSpace2ViewPort(fn.result) = fn.point

\* transformViewPort2WorldSpace ran on a camera off the origin, zoomed and
\* turned by a quarter, and returned a point other than its argument.
C14_Witness ==
    /\ call = "transformViewPort2WorldSpace"
    /\ position # Point(0, 0) /\ zoomLevel = 3 /\ rotation = Pi \div 2
    /\ fn.result # fn.point
    /\ fn.result # Point(fn.point.x + position.x, fn.point.y + position.y)

Transforms ==
    { "transformViewPort2WorldSpace", "transformWorldSpace2ViewPort",
      "transformVector2WorldSpace" }

\* C20: setPosition and setPositionBy change at most the position,
\* setZoomLevel and setZoomLevelBy at most the zoom level, setRotation and
\* setRotationBy at most the rotation; none of the six changes a boundary, the
\* view port size or limitEntireViewPort; the three transforms change nothing
\* and notify nobody.
C20_Frame ==
    [][ /\ call' \in { "setPosition", "setPositionBy" } =>
              UNCHANGED << zoomLevel, rotation >>
        /\ call' \in { "setZoomLevel", "setZoomLevelBy" } =>
              UNCHANGED << position, rotation >>
        /\ call' \in { "setRotation", "setRotationBy" } =>
              UNCHANGED << position, zoomLevel >>
        /\ call' \in Mutators =>
              UNCHANGED << positionBoundary, zoomLevelBoundary, rotationBoundary,
                           viewPortWidth, viewPortHeight, limitEntireViewPort >>
        /\ call' \in Transforms =>
              /\ UNCHANGED << position, zoomLevel, rotation >>
              /\ UNCHANGED << positionBoundary, zoomLevelBoundary, rotationBoundary,
                              viewPortWidth, viewPortHeight, limitEntireViewPort >>
              /\ notifications' = << >> ]_vars

\* transformVector2WorldSpace ran, and returned a vector other than its
\* argument, on a camera that had been moved, zoomed, turned, given a rotation
\* boundary and put in whole-viewport mode.
C20_Witness ==
    /\ call = "transformVector2WorldSpace" /\ fn.result # fn.point
    /\ position # Point(0, 0) /\ zoomLevel # ZoomOne /\ rotation # 0
    /\ rotationBoundary # Undefined /\ limitEntireViewPort

RECURSIVE ArcPoints(_, _, _)
ArcPoints(cur, end, step) ==
    IF cur = end THEN { end }
    ELSE { cur } \cup ArcPoints((cur + TwoPi + step) % TwoPi, end, step)

\* C16: for start and end in [0, 2*pi), rotationWithinBoundary(r, b) is true
\* exactly when r, brought into [0, 2*pi), lies on the arc travelled from
\* start to end, counter-clockwise when positiveDirection is set and clockwise
\* when it is not, both ends included; start and end are inside.
C16_ArcMembership ==
    (/\ fn.name = "rotationWithinBoundary"
     /\ Normalized(fn.boundary.start) /\ Normalized(fn.boundary.end)) =>
        /\ fn.result <=>
              (fn.rotation % TwoPi) \in
                  ArcPoints(fn.boundary.start, fn.boundary.end,
                            IF fn.boundary.positiveDirection THEN 1 ELSE -1)
        /\ rotationWithinBoundary(fn.boundary.start, fn.boundary)
        /\ rotationWithinBoundary(fn.boundary.end, fn.boundary)

\* rotationWithinBoundary found a negative angle inside a clockwise arc that
\* passes through 0, strictly between its ends.
C16_Witness ==
    /\ fn.name = "rotationWithinBoundary" /\ fn.result = TRUE
    /\ ~fn.boundary.positiveDirection
    /\ 0 < fn.boundary.start /\ fn.boundary.start < fn.boundary.end
    /\ fn.boundary.end < TwoPi
    /\ fn.rotation < 0
    /\ fn.rotation % TwoPi \notin { fn.boundary.start, fn.boundary.end }

\* A point lies on the closed segment from a to b: on the line through them
\* and not beyond either end.
LiesOnSegment(p, a, b) ==
    /\ (b.x - a.x) * (p.y - a.y) = (b.y - a.y) * (p.x - a.x)
    /\ (p.x - a.x) * (p.x - b.x) <= 0
    /\ (p.y - a.y) * (p.y - b.y) <= 0

\* The number of edges of the boundary a point lies beyond.
EdgesExceeded(p, pb) ==
    Cardinality({ e \in { "top", "right", "bottom", "left" } :
        \/ e = "top" /\ p.y > pb.max.y
        \/ e = "right" /\ p.x > pb.max.x
        \/ e = "bottom" /\ p.y < pb.min.y
        \/ e = "left" /\ p.x < pb.min.x })

\* A point lies on the line of an edge the destination lies beyond.
OnExceededEdge(p, destination, pb) ==
    \/ destination.y > pb.max.y /\ p.y = pb.max.y
    \/ destination.x > pb.max.x /\ p.x = pb.max.x
    \/ destination.y < pb.min.y /\ p.y = pb.min.y
    \/ destination.x < pb.min.x /\ p.x = pb.min.x

\* C17: for an origin within the position boundary (min <= max) and any
\* destination, clampingV2 throws nothing and returns a point within the
\* boundary: the destination when it is inside, the corner when the
\* destination lies beyond two adjacent edges, and otherwise the point where
\* the segment from origin to destination meets the one edge exceeded.
C17_ClampingV2NeverFails ==
    (fn.name = "clampingV2" /\ InsideRect(fn.origin, fn.boundary)) =>
        /\ ~fn.result.threw
        /\ InsideRect(fn.result.value, fn.boundary)
        /\ EdgesExceeded(fn.destination, fn.boundary) = 0 =>
              fn.result.value = fn.destination
        /\ EdgesExceeded(fn.destination, fn.boundary) = 2 =>
              fn.result.value = ClampPerAxis(fn.destination, fn.boundary)
        /\ EdgesExceeded(fn.destination, fn.boundary) = 1 =>
              /\ OnExceededEdge(fn.result.value, fn.destination, fn.boundary)
              /\ LiesOnSegment(fn.result.value, fn.origin, fn.destination)

\* clampingV2 cut a slanted move from strictly inside the boundary at the left
\* edge, between the corners, at a height that is neither the origin's nor the
\* destination's.
C17_Witness ==
    /\ fn.name = "clampingV2" /\ ~fn.result.threw
    /\ fn.boundary.min.x < fn.origin.x /\ fn.origin.x < fn.boundary.max.x
    /\ fn.boundary.min.y < fn.origin.y /\ fn.origin.y < fn.boundary.max.y
    /\ fn.destination.x < fn.boundary.min.x
    /\ EdgesExceeded(fn.destination, fn.boundary) = 1
    /\ fn.result.value.x = fn.boundary.min.x
    /\ fn.result.value.y \notin { fn.origin.y, fn.destination.y,
                                   fn.boundary.min.y, fn.boundary.max.y }

\* clampingV2 threw for an origin outside the boundary.
C17_ThrowsForOutsideOrigin ==
    /\ fn.name = "clampingV2" /\ fn.result.threw
    /\ ~InsideRect(fn.origin, fn.boundary)

=============================================================================
